---- MODULE Spec2Model ----
(***************************************************************************)
(* Model of src/app/main.js: a web form that relays "gamemode survival     *)
(* <user>" to a game server over RCON.                                     *)
(*                                                                         *)
(* The program is a single-threaded event loop.  Its state is the two      *)
(* globals rconReady and rcon, the Rcon objects constructed so far with    *)
(* the per-command listeners registered on them, the closures created by   *)
(* sendGamemode (one per call: handled flag and callback), and the timers  *)
(* scheduled with setTimeout.  Each action below is one run-to-completion  *)
(* callback of the event loop.                                             *)
(*                                                                         *)
(* The transport (the 'rcon' package over a TCP socket) is the             *)
(* environment.  It is modelled by what it emits to the handlers of        *)
(* main.js: 'auth' once per object, 'response' as the reply to a command   *)
(* written on the authenticated socket, 'error' for a rejected credential  *)
(* (socket stays open) or a socket error (socket destroyed, no 'end'),     *)
(* and 'end' once when the peer closes the socket.                         *)
(***************************************************************************)
EXTENDS Naturals, Integers, Sequences, FiniteSets, TLC

VARIABLES
    AUTH_PASSWORD,  \* main.js:13, fixed at start-up
    rconReady,      \* main.js:19
    rcon,           \* main.js:20, index into objs of the current Rcon object
    objs,           \* every Rcon object constructed so far
    cmds,           \* one record per sendGamemode call (its closure)
    timers,         \* pending setTimeout callbacks, in firing order
    last            \* the event-loop callback that ran last, with its inputs

vars == <<AUTH_PASSWORD, rconReady, rcon, objs, cmds, timers, last>>

---------------------------------------------------------------------------
(* Bounds of the model *)

\* number of sendGamemode calls in a run
MaxCmds == 2

\* number of Rcon objects constructed in a run (start-up plus reconnects)
MaxObjs == 3

---------------------------------------------------------------------------
(* Program constants *)

\* setTimeout(connectRcon, 5000)
RECONNECT_DELAY == 5000

\* setTimeout(() => {...}, 5000) in sendGamemode
COMMAND_TIMEOUT == 5000

\* {3,16} in the username pattern
USER_MIN == 3
USER_MAX == 16

\* values of process.env.AUTH_PASSWORD ('' when unset)
Passwords == {"", "secret"}

\* password fields a form can submit
SubmittedPasswords == {"", "secret", "wrong"}

\* Error messages
ERR_NOT_CONNECTED == "RCON not connected"
ERR_TIMEOUT == "RCON command timeout"
\* errors that originate in the rcon package or the socket
ERR_AUTH_FAILED == "Authentication failed"
ERR_SOCKET == "socket error"
ERR_SEND == "send threw"

\* texts a server can answer a gamemode command with
Texts == {"Set own game mode to Survival Mode", "No player was found"}

\* /No player was found/i.test(resp)
NoPlayerFound(resp) == resp \in {"No player was found"}

\* characters of the usernames the model submits
WordChars == {"a", "Z", "9", "_"}
Space == " "

RECURSIVE TrimStart(_)
TrimStart(s) ==
    IF s # <<>> /\ Head(s) = Space THEN TrimStart(Tail(s)) ELSE s

RECURSIVE TrimEnd(_)
TrimEnd(s) ==
    IF s # <<>> /\ s[Len(s)] = Space THEN TrimEnd(SubSeq(s, 1, Len(s) - 1)) ELSE s

\* String.prototype.trim
Trim(s) == TrimEnd(TrimStart(s))

\* /^[A-Za-z0-9_]{3,16}$/.test(username)
ValidUsername(u) ==
    /\ Len(u) >= USER_MIN
    /\ Len(u) <= USER_MAX
    /\ \A i \in 1..Len(u) : u[i] \in WordChars

Rep(ch, n) == [i \in 1..n |-> ch]

\* username fields a form can submit
RawUsernames ==
    { <<"a", "Z">>,
      <<Space, "a", "_", "9", Space>>,
      <<"a", "<", "9">>,
      Rep("Z", USER_MAX),
      Rep("Z", USER_MAX + 1) }

---------------------------------------------------------------------------
(* Rcon objects *)

\* new Rcon(...) followed by rcon.connect(): the socket is being opened and
\* the credential has not been answered.  respL and errL are the commands
\* whose onResponse / onError listener is registered on the object;
\* inflight holds the commands written to the socket and not yet answered,
\* oldest first (the server answers them in the order it received them).
NewRcon == [status |-> "connecting", respL |-> {}, errL |-> {}, inflight |-> <<>>]

\* the socket of the object is open
Open(o) == objs[o].status \in {"connecting", "rejected", "authed"}

ObjIds == 1..Len(objs)
CmdIds == 1..Len(cmds)

\* function connectRcon()
ConnectRcon(os) == Append(os, NewRcon)

---------------------------------------------------------------------------
(* Callbacks *)

Ok(resp) == [err |-> "none", resp |-> resp]
Err(e) == [err |-> e, resp |-> "none"]

\* the callback the POST /set handler passes to sendGamemode
HttpStatus(result) ==
    IF result.err # "none" THEN 500
    ELSE IF result.resp # "" /\ NoPlayerFound(result.resp) THEN 400
    ELSE 200

\* callback(err, resp) of command record c
Invoke(c, result) ==
    [c EXCEPT !.calls = Append(@, result),
              !.http = IF c.origin = "post" THEN Append(@, HttpStatus(result)) ELSE @]

\* onResponse with the arguments of callback in the wrong place: callback(resp)
OnResponseTextAsError(c, resp) ==
    IF c.handled THEN c ELSE Invoke([c EXCEPT !.handled = TRUE], Err(resp))

\* const onResponse = (resp) => {...}
OnResponse(c, resp) ==
    IF c.handled THEN c ELSE Invoke([c EXCEPT !.handled = TRUE], Ok(resp))

\* const onError = (err) => {...}
OnError(c, e) ==
    IF c.handled THEN c ELSE Invoke([c EXCEPT !.handled = TRUE], Err(e))

\* rcon.emit('response', str): the logging listener, then every once-listener,
\* each removed as it is called
EmitResponse(o, str) ==
    /\ cmds' = [i \in CmdIds |-> IF i \in objs[o].respL THEN OnResponse(cmds[i], str) ELSE cmds[i]]

\* rcon.emit('error', err): the logging listener, then every once-listener
EmitError(o, e) ==
    /\ cmds' = [i \in CmdIds |-> IF i \in objs[o].errL THEN OnError(cmds[i], e) ELSE cmds[i]]

---------------------------------------------------------------------------
Init ==
    /\ AUTH_PASSWORD \in Passwords
    /\ rconReady = FALSE
    /\ objs = ConnectRcon(<<>>)
    /\ rcon = 1
    /\ cmds = <<>>
    /\ timers = <<>>
    /\ last = [op |-> "start"]

---------------------------------------------------------------------------
(* Transport events *)

\* rcon.on('auth', ...)
Auth(o) ==
    /\ objs[o].status = "connecting"
    /\ objs' = [objs EXCEPT ![o].status = "authed"]
    /\ rconReady' = TRUE
    /\ last' = [op |-> "auth", obj |-> o]
    /\ UNCHANGED <<AUTH_PASSWORD, rcon, cmds, timers>>

\* the 'error' handler scheduling a reconnect of its own while the socket of
\* the rejected object is still open
AuthFailReconnects(o) ==
    /\ objs[o].status = "connecting"
    /\ Len(objs) < MaxObjs
    /\ EmitError(o, ERR_AUTH_FAILED)
    /\ objs' = [objs EXCEPT ![o].status = "rejected", ![o].errL = {}]
    /\ timers' = Append(timers, [kind |-> "reconnect", delay |-> RECONNECT_DELAY])
    /\ last' = [op |-> "authfail", obj |-> o]
    /\ UNCHANGED <<AUTH_PASSWORD, rconReady, rcon>>

\* rcon.on('error', ...) for a rejected credential: the socket stays open
AuthFail(o) ==
    /\ objs[o].status = "connecting"
    /\ EmitError(o, ERR_AUTH_FAILED)
    /\ objs' = [objs EXCEPT ![o].status = "rejected", ![o].errL = {}]
    /\ last' = [op |-> "authfail", obj |-> o]
    /\ UNCHANGED <<AUTH_PASSWORD, rconReady, rcon, timers>>

\* rcon.on('error', ...) for a socket error: the socket is destroyed and
\* emits no 'end'
TransportError(o) ==
    /\ Open(o)
    /\ EmitError(o, ERR_SOCKET)
    /\ objs' = [objs EXCEPT ![o].status = "failed", ![o].errL = {}, ![o].inflight = <<>>]
    /\ last' = [op |-> "error", obj |-> o]
    /\ UNCHANGED <<AUTH_PASSWORD, rconReady, rcon, timers>>

\* rcon.on('response', ...) plus the once('response') listeners: the server
\* answers one of the commands written to it, whenever it does
Response(o, str) ==
    /\ objs[o].status = "authed"
    /\ objs[o].inflight # <<>>
    /\ EmitResponse(o, str)
    /\ objs' = [objs EXCEPT ![o].respL = {}, ![o].inflight = Tail(@)]
    /\ last' = [op |-> "response", obj |-> o, resp |-> str, for |-> Head(objs[o].inflight)]
    /\ UNCHANGED <<AUTH_PASSWORD, rconReady, rcon, timers>>

\* the 'end' handler without its setTimeout(connectRcon, 5000)
EndNoReconnect(o) ==
    /\ Open(o)
    /\ Len(objs) < MaxObjs
    /\ objs' = [objs EXCEPT ![o].status = "ended", ![o].inflight = <<>>]
    /\ rconReady' = FALSE
    /\ last' = [op |-> "end", obj |-> o]
    /\ UNCHANGED <<AUTH_PASSWORD, rcon, cmds, timers>>

\* rcon.on('end', ...): the peer closes the socket, once per object.  The
\* last object the bound allows is never closed.
End(o) ==
    /\ Open(o)
    /\ Len(objs) < MaxObjs
    /\ objs' = [objs EXCEPT ![o].status = "ended", ![o].inflight = <<>>]
    /\ rconReady' = FALSE
    /\ timers' = Append(timers, [kind |-> "reconnect", delay |-> RECONNECT_DELAY])
    /\ last' = [op |-> "end", obj |-> o]
    /\ UNCHANGED <<AUTH_PASSWORD, rcon, cmds>>

---------------------------------------------------------------------------
(* Timers.  Every delay is 5000 ms, so timers fire in the order they were *)
(* scheduled.                                                              *)

\* setTimeout(connectRcon, 5000) firing
ReconnectTimer ==
    /\ timers # <<>>
    /\ Head(timers).kind = "reconnect"
    /\ timers' = Tail(timers)
    /\ objs' = ConnectRcon(objs)
    /\ rcon' = Len(objs) + 1
    /\ last' = [op |-> "reconnect", obj |-> Len(objs) + 1]
    /\ UNCHANGED <<AUTH_PASSWORD, rconReady, cmds>>

\* the fallback timeout without its guard and clean-up: it neither tests nor
\* sets handled and leaves the listeners registered
FallbackTimeoutNoCleanup ==
    /\ timers # <<>>
    /\ Head(timers).kind = "timeout"
    /\ LET id == Head(timers).cmd
           c == cmds[id]
       IN /\ timers' = Tail(timers)
          /\ cmds' = [cmds EXCEPT ![id] = Invoke(c, Err(ERR_TIMEOUT))]
          /\ last' = [op |-> "timeout", cmd |-> id, fired |-> TRUE]
    /\ UNCHANGED <<AUTH_PASSWORD, rconReady, rcon, objs>>

\* the fallback timeout treating a timeout as a dead connection: it also
\* clears rconReady and schedules a reconnect
FallbackTimeoutTearsDown ==
    /\ timers # <<>>
    /\ Head(timers).kind = "timeout"
    /\ LET id == Head(timers).cmd
           c == cmds[id]
       IN /\ IF ~c.handled
             THEN /\ cmds' = [cmds EXCEPT ![id] = Invoke([c EXCEPT !.handled = TRUE], Err(ERR_TIMEOUT))]
                  /\ objs' = [objs EXCEPT ![rcon].respL = @ \ {id}, ![rcon].errL = @ \ {id}]
                  /\ rconReady' = FALSE
                  /\ timers' = Append(Tail(timers), [kind |-> "reconnect", delay |-> RECONNECT_DELAY])
             ELSE /\ timers' = Tail(timers)
                  /\ UNCHANGED <<cmds, objs, rconReady>>
          /\ last' = [op |-> "timeout", cmd |-> id, fired |-> ~c.handled]
    /\ UNCHANGED <<AUTH_PASSWORD, rcon>>

\* the fallback timeout marking the command handled without calling back
FallbackTimeoutSilent ==
    /\ timers # <<>>
    /\ Head(timers).kind = "timeout"
    /\ LET id == Head(timers).cmd
           c == cmds[id]
       IN /\ timers' = Tail(timers)
          /\ IF ~c.handled
             THEN /\ cmds' = [cmds EXCEPT ![id].handled = TRUE]
                  /\ objs' = [objs EXCEPT ![rcon].respL = @ \ {id}, ![rcon].errL = @ \ {id}]
             ELSE UNCHANGED <<cmds, objs>>
          /\ last' = [op |-> "timeout", cmd |-> id, fired |-> ~c.handled]
    /\ UNCHANGED <<AUTH_PASSWORD, rconReady, rcon>>

\* the fallback timeout of sendGamemode firing
FallbackTimeout ==
    /\ timers # <<>>
    /\ Head(timers).kind = "timeout"
    /\ LET id == Head(timers).cmd
           c == cmds[id]
       IN /\ timers' = Tail(timers)
          /\ IF ~c.handled
             THEN /\ cmds' = [cmds EXCEPT ![id] = Invoke([c EXCEPT !.handled = TRUE], Err(ERR_TIMEOUT))]
                  /\ objs' = [objs EXCEPT ![rcon].respL = @ \ {id}, ![rcon].errL = @ \ {id}]
             ELSE UNCHANGED <<cmds, objs>>
          /\ last' = [op |-> "timeout", cmd |-> id, fired |-> ~c.handled]
    /\ UNCHANGED <<AUTH_PASSWORD, rconReady, rcon>>

---------------------------------------------------------------------------
(* sendGamemode *)

\* sendGamemode without the rconReady test of its first line
SendGamemodeNoReadyCheck(origin, throws) ==
    LET id == Len(cmds) + 1
        c0 == [origin |-> origin, obj |-> rcon, sent |-> "no", handled |-> FALSE,
               calls |-> <<>>, http |-> <<>>]
    IN /\ IF throws
          THEN /\ cmds' = Append(cmds, Invoke([c0 EXCEPT !.sent = "threw"], Err(ERR_SEND)))
               /\ UNCHANGED objs
          ELSE /\ cmds' = Append(cmds, [c0 EXCEPT !.sent = "ok"])
               /\ objs' = [objs EXCEPT ![rcon].respL = @ \cup {id},
                                       ![rcon].errL = @ \cup {id},
                                       ![rcon].inflight =
                                           IF objs[rcon].status = "authed" THEN Append(@, id) ELSE @]
       /\ timers' = Append(timers, [kind |-> "timeout", delay |-> COMMAND_TIMEOUT, cmd |-> id])

\* function sendGamemode(username, callback); throws: rcon.send(cmd) throws
SendGamemode(origin, throws) ==
    LET id == Len(cmds) + 1
        c0 == [origin |-> origin, obj |-> 0, sent |-> "no", handled |-> FALSE,
               calls |-> <<>>, http |-> <<>>]
    IN IF ~rconReady
       THEN /\ cmds' = Append(cmds, Invoke(c0, Err(ERR_NOT_CONNECTED)))
            /\ UNCHANGED <<objs, timers>>
       ELSE /\ IF throws
               THEN /\ cmds' = Append(cmds, Invoke([c0 EXCEPT !.obj = rcon, !.sent = "threw"], Err(ERR_SEND)))
                    /\ UNCHANGED objs
               ELSE /\ cmds' = Append(cmds, [c0 EXCEPT !.obj = rcon, !.sent = "ok"])
                    /\ objs' = [objs EXCEPT ![rcon].respL = @ \cup {id},
                                            ![rcon].errL = @ \cup {id},
                                            ![rcon].inflight =
                                                IF objs[rcon].status = "authed" THEN Append(@, id) ELSE @]
            /\ timers' = Append(timers, [kind |-> "timeout", delay |-> COMMAND_TIMEOUT, cmd |-> id])

\* a call of sendGamemode while rconReady is false.  The form handler answers
\* 503 itself and never makes this call; while rconReady is true its call is
\* the only one the program makes.
CallSendGamemode(throws) ==
    /\ Len(cmds) < MaxCmds
    /\ ~rconReady
    /\ SendGamemode("direct", throws)
    /\ last' = [op |-> "call", cmd |-> Len(cmds) + 1, ready |-> rconReady,
                throws |-> (rconReady /\ throws)]
    /\ UNCHANGED <<AUTH_PASSWORD, rconReady, rcon>>

---------------------------------------------------------------------------
(* POST /set *)

\* the early returns of the handler without the password comparison
RejectNoPasswordCheck(password, username) ==
    IF AUTH_PASSWORD = "" THEN 500
    ELSE IF ~ValidUsername(username) THEN 400
    ELSE IF ~rconReady THEN 503
    ELSE 0

\* the status the handler answers with before it reaches sendGamemode,
\* 0 when it reaches it
Reject(password, username) ==
    IF AUTH_PASSWORD = "" THEN 500
    ELSE IF password # AUTH_PASSWORD THEN 403
    ELSE IF ~ValidUsername(username) THEN 400
    ELSE IF ~rconReady THEN 503
    ELSE 0

\* req.on('end', ...) of POST /set
PostSet(password, rawUsername, throws) ==
    LET username == Trim(rawUsername)
        status == Reject(password, username)
    IN /\ Len(cmds) < MaxCmds
       /\ IF status # 0
          THEN UNCHANGED <<cmds, objs, timers>>
          ELSE SendGamemode("post", throws)
       /\ last' = [op |-> "post", status |-> status, password |-> password,
                   username |-> username, cmd |-> Len(cmds) + 1,
                   throws |-> (status = 0 /\ throws)]
       /\ UNCHANGED <<AUTH_PASSWORD, rconReady, rcon>>

---------------------------------------------------------------------------
Next ==
    \/ \E o \in ObjIds : Auth(o)
    \/ \E o \in ObjIds : AuthFail(o)
    \/ \E o \in ObjIds : TransportError(o)
    \/ \E o \in ObjIds, str \in Texts : Response(o, str)
    \/ \E o \in ObjIds : End(o)
    \/ ReconnectTimer
    \/ FallbackTimeout
    \/ \E p \in SubmittedPasswords, u \in RawUsernames, throws \in BOOLEAN : PostSet(p, u, throws)
    \/ \E throws \in BOOLEAN : CallSendGamemode(throws)

Spec == Init /\ [][Next]_vars

\* the event loop runs every timer that is due
FairSpec == Spec /\ WF_vars(FallbackTimeout) /\ WF_vars(ReconnectTimer)

---------------------------------------------------------------------------
(* Vocabulary of the properties *)

Range(f) == {f[k] : k \in DOMAIN f}

\* command i was written to the connection and no resolution reached its caller
Pending(i) == cmds[i].sent = "ok" /\ ~cmds[i].handled

\* the fallback timeout of command i has not fired yet
HasTimeout(i) ==
    \E k \in DOMAIN timers : timers[k].kind = "timeout" /\ timers[k].cmd = i

\* the Backoff Timers that are pending
BackoffTimers == {k \in DOMAIN timers : timers[k].kind = "reconnect"}

\* the step being taken runs sendGamemode (the form handler reached it, or
\* another caller called it)
SendGamemodeStep ==
    \/ last'.op = "call"
    \/ last'.op = "post" /\ last'.status = 0

---------------------------------------------------------------------------
(* C1 *)

\* C1: at most one Pending Command exists at any instant: there is never a
\* state with two commands that were both sent and are both unresolved.
C1_AtMostOnePending ==
    Cardinality({i \in CmdIds : Pending(i)}) <= 1

---------------------------------------------------------------------------
(* C2 *)

\* C2: the callback of every sendGamemode call is invoked exactly once:
\* never more than once, and once by the time its fallback timer has fired.
C2_ExactlyOneResolution ==
    \A i \in CmdIds :
        /\ Len(cmds[i].calls) <= 1
        /\ (cmds[i].sent # "no" /\ ~HasTimeout(i)) => Len(cmds[i].calls) = 1

---------------------------------------------------------------------------
(* C3 *)

\* the caller of command i was given the timeout error
TimedOut(i) == Err(ERR_TIMEOUT) \in Range(cmds[i].calls)

\* C3: when the fallback timer of a command fires and neither a response nor
\* an error event has reached the command, its callback is invoked with the
\* timeout error; and a response event never invokes the callback of a
\* command that has timed out.
C3_TimeoutThenNoLateCallback ==
    [][ /\ last'.op = "timeout" =>
              LET i == last'.cmd
              IN ~cmds[i].handled =>
                    cmds'[i].calls = Append(cmds[i].calls, Err(ERR_TIMEOUT))
        /\ last'.op = "response" =>
              \A i \in CmdIds : TimedOut(i) => cmds'[i].calls = cmds[i].calls
      ]_vars

\* a response arrives on the connection of a command that timed out before
C3_Witness ==
    /\ last.op = "response"
    /\ \E i \in CmdIds :
          /\ cmds[i].obj = last.obj
          /\ cmds[i].sent = "ok"
          /\ cmds[i].calls = <<Err(ERR_TIMEOUT)>>

---------------------------------------------------------------------------
(* C4 *)

\* C4: a transport 'error' event while a command is outstanding on that
\* connection invokes the command's callback with the error and leaves
\* rconReady false, in the same step.
C4_ErrorFailsCommandAndDisconnects ==
    [][ \A i \in CmdIds :
            (last'.op = "error" /\ Pending(i) /\ cmds[i].obj = last'.obj /\ HasTimeout(i)) =>
                /\ cmds'[i].calls = <<Err(ERR_SOCKET)>>
                /\ ~rconReady'
      ]_vars

---------------------------------------------------------------------------
(* C5 *)

\* C5: an 'end' event while the session is Ready and a command is
\* outstanding fails the command in the same step, clears rconReady and
\* schedules a Backoff Timer.
C5_EndFailsCommandImmediately ==
    [][ \A i \in CmdIds :
            (last'.op = "end" /\ rconReady /\ Pending(i) /\ cmds[i].obj = last'.obj /\ HasTimeout(i)) =>
                /\ cmds'[i].handled
                /\ Len(cmds'[i].calls) = 1
                /\ cmds'[i].calls[1].err # "none"
                /\ ~rconReady'
                /\ BackoffTimers' # {}
      ]_vars

---------------------------------------------------------------------------
(* C6 *)

\* C6: sendGamemode called while rconReady is false invokes its callback with
\* the not-ready error before it returns, and changes nothing else: nothing
\* is sent, no listener is registered, no timer is started, rcon and
\* rconReady are unchanged.
C6_NotReadyRejectsWithoutEffects ==
    [][ (SendGamemodeStep /\ ~rconReady) =>
            /\ Len(cmds') = Len(cmds) + 1
            /\ cmds'[Len(cmds')].calls = <<Err(ERR_NOT_CONNECTED)>>
            /\ cmds'[Len(cmds')].sent = "no"
            /\ objs' = objs
            /\ timers' = timers
            /\ rcon' = rcon
            /\ rconReady' = rconReady
      ]_vars

\* sendGamemode has been called while rconReady was false
C6_Witness ==
    /\ last.op = "call"
    /\ ~last.ready
    /\ ~rconReady
    /\ cmds[last.cmd].calls = <<Err(ERR_NOT_CONNECTED)>>

---------------------------------------------------------------------------
(* C7 *)

\* C7: sendGamemode called while another command is sent and unresolved is
\* rejected with the not-ready error and does not send its command, even
\* when rconReady is true.
C7_SecondCommandRejected ==
    [][ (SendGamemodeStep /\ \E i \in CmdIds : Pending(i) /\ HasTimeout(i)) =>
            /\ cmds'[Len(cmds')].sent = "no"
            /\ cmds'[Len(cmds')].calls = <<Err(ERR_NOT_CONNECTED)>>
      ]_vars

---------------------------------------------------------------------------
(* C8 *)

\* command i is the single command sent, and no event has reached it
Fresh(i) ==
    /\ Pending(i)
    /\ HasTimeout(i)
    /\ cmds[i].calls = <<>>
    /\ i \in objs[cmds[i].obj].respL
    /\ \A j \in CmdIds : Pending(j) => j = i

\* C8: when the session is Ready, a single command is sent and the next
\* event of the transport is a response carrying t, the callback is invoked
\* with no error and exactly the text t.
C8_RoundTrip ==
    [][ \A i \in CmdIds :
            (rconReady /\ Fresh(i) /\ last'.op = "response" /\ last'.obj = cmds[i].obj) =>
                cmds'[i].calls = <<Ok(last'.resp)>>
      ]_vars

\* a command was answered with a non-empty text and its caller received it
C8_Witness ==
    /\ last.op = "response"
    /\ last.resp # ""
    /\ \E i \in CmdIds :
          /\ cmds[i].obj = last.obj
          /\ cmds[i].calls = <<Ok(last.resp)>>

---------------------------------------------------------------------------
(* C9 *)

---------------------------------------------------------------------------
(* C10 *)

\* C10: when authentication fails, in the same step rconReady is false and a
\* Backoff Timer is scheduled.
C10_AuthFailureSchedulesReconnect ==
    [][ last'.op = "authfail" => (~rconReady' /\ BackoffTimers' # {}) ]_vars

---------------------------------------------------------------------------
(* C11 *)

\* the Rcon objects whose socket is connecting, authenticating or ready
LiveSessions == {o \in ObjIds : Open(o)}

\* C11: at most one live Session exists at any time, and connectRcon
\* constructs a new Rcon object only when no earlier object is live and the
\* object it replaces has ended.
C11_AtMostOneLiveSession ==
    /\ [](Cardinality(LiveSessions) <= 1)
    /\ [][ last'.op = "reconnect" =>
              /\ LiveSessions = {}
              /\ objs[rcon].status = "ended"
              /\ LiveSessions' = {rcon'}
         ]_vars

\* a reconnect has replaced an ended session by a new live one
C11_Witness ==
    /\ last.op = "reconnect"
    /\ objs[rcon - 1].status = "ended"
    /\ LiveSessions = {rcon}

---------------------------------------------------------------------------
(* C12 *)

\* C12: whenever the session is not Ready, the socket of the current object
\* is open (a connection or authentication attempt is in progress, or the
\* peer has yet to close a rejected one) or a reconnect timer is pending.
C12_NeverStuckOutsideReady ==
    ~rconReady => (Open(rcon) \/ BackoffTimers # {})

---------------------------------------------------------------------------
(* C13 *)

\* C13: a sendGamemode call whose rcon.send throws tears the session down
\* like a close: rconReady is false after the step and a Backoff Timer is
\* scheduled.
C13_SendFailureTearsDown ==
    [][ (SendGamemodeStep /\ last'.throws) => (~rconReady' /\ BackoffTimers' # {}) ]_vars

---------------------------------------------------------------------------
(* C14 *)

\* C14: the fallback timeout that resolves a command with the timeout error
\* clears that command (handled, listeners removed from the current object)
\* and leaves the session alone: rconReady, rcon and the state of every
\* connection are unchanged and no reconnect is scheduled.
C14_TimeoutLeavesSession ==
    [][ (last'.op = "timeout" /\ last'.fired) =>
            LET i == last'.cmd
            IN /\ cmds'[i].handled
               /\ cmds'[i].calls = Append(cmds[i].calls, Err(ERR_TIMEOUT))
               /\ i \notin (objs'[rcon'].respL \cup objs'[rcon'].errL)
               /\ rconReady' = rconReady
               /\ rcon' = rcon
               /\ \A o \in ObjIds : objs'[o].status = objs[o].status
               /\ Len(objs') = Len(objs)
               /\ timers' = Tail(timers)
      ]_vars

\* a command has timed out on a session that is Ready and stays Ready
C14_Witness ==
    /\ last.op = "timeout"
    /\ last.fired
    /\ cmds[last.cmd].calls = <<Err(ERR_TIMEOUT)>>
    /\ rconReady
    /\ objs[rcon].status = "authed"
    /\ BackoffTimers = {}

---------------------------------------------------------------------------
(* C15 *)

\* the request is authenticated and valid and the session is Ready
Relayable(password, username) ==
    /\ AUTH_PASSWORD # ""
    /\ password = AUTH_PASSWORD
    /\ Len(username) \in 3..16
    /\ \A k \in DOMAIN username : username[k] \in {"a", "Z", "9", "_"}
    /\ rconReady

\* C15: a POST /set reaches rcon.send only if AUTH_PASSWORD is non-empty,
\* the password equals it, the trimmed username matches the pattern and
\* rconReady is true; every other request is answered 500, 403, 400 or 503
\* and sends nothing.
C15_OnlyValidRequestsRelayed ==
    [][ last'.op = "post" =>
            IF Relayable(last'.password, last'.username)
            THEN /\ last'.status = 0
                 /\ Len(cmds') = Len(cmds) + 1
                 /\ cmds'[Len(cmds')].sent # "no"
            ELSE /\ last'.status \in {500, 403, 400, 503}
                 /\ cmds' = cmds
                 /\ objs' = objs
                 /\ timers' = timers
      ]_vars

\* a valid request was relayed: its command was written to the connection
C15_Witness ==
    /\ last.op = "post"
    /\ last.status = 0
    /\ last.password = AUTH_PASSWORD
    /\ cmds[last.cmd].origin = "post"
    /\ cmds[last.cmd].sent = "ok"
    /\ last.cmd \in Range(objs[rcon].inflight)

---------------------------------------------------------------------------
(* C16 *)

\* the callback of command i has been invoked
Resolved(i) == i \in CmdIds /\ cmds[i].calls # <<>>

\* C16: every call of sendGamemode is resolved: its callback has been
\* invoked at least once by the time its fallback timer has fired, and the
\* timer does fire, so every call is eventually resolved.
C16_EveryCallResolves ==
    /\ [](\A i \in CmdIds : ~HasTimeout(i) => Resolved(i))
    /\ \A i \in 1..MaxCmds : [](i \in CmdIds => <>Resolved(i))

\* a command outlived a close and a reconnect of its connection and was
\* resolved by its fallback timer
C16_Witness ==
    /\ last.op = "reconnect"
    /\ \E i \in CmdIds :
          /\ cmds[i].sent = "ok"
          /\ cmds[i].obj # rcon
          /\ cmds[i].calls = <<Err(ERR_TIMEOUT)>>

---------------------------------------------------------------------------
(* C17 *)

\* C17: the late reply to a command that has already timed out is discarded:
\* the 'response' event that carries it invokes no command's callback, so it
\* is never delivered as the response of a later command.
C17_LateReplyDiscarded ==
    [][ (last'.op = "response" /\ TimedOut(last'.for)) =>
            \A i \in CmdIds : cmds'[i].calls = cmds[i].calls
      ]_vars

---------------------------------------------------------------------------
(* C18 *)

\* C18: rconReady is true if and only if the current Rcon object has emitted
\* 'auth' and has had no close or transport error since.
C18_ReadyMatchesSession ==
    rconReady <=> objs[rcon].status = "authed"

---------------------------------------------------------------------------
(* C19 *)

\* C19: once a sendGamemode call has been resolved, neither its onResponse
\* nor its onError listener is registered on any Rcon object.
C19_NoListenerOutlivesCommand ==
    \A i \in CmdIds :
        cmds[i].calls # <<>> =>
            \A o \in ObjIds : i \notin (objs[o].respL \cup objs[o].errL)

====
